---- MODULE Spec2Model ----
(***************************************************************************)
(* LootProbabilityManager.getUpdatedLootTables                             *)
(*                                                                         *)
(* Numbers of the configuration (rates, multipliers, ceiling) are real     *)
(* numbers in the program.  They are kept here as exact fixed-point        *)
(* integers in hundredths: 100 is the multiplier 1, 5 is the rate 0.05.    *)
(* Probabilities, amounts and ages are integers as in the game data.       *)
(***************************************************************************)
EXTENDS Integers, Sequences, FiniteSets, TLC

VARIABLES
    config,                     \* the values imported from config.json
    profile,                    \* profile.characters.pmc: Inventory.items, BackendCounters
    questItemRequirements,      \* argument
    hideoutItemRequirements,    \* argument
    loot,                       \* argument: loot.staticLoot
    locations,                  \* argument
    itemsInInventory,           \* Record<tpl, {foundInRaid, notFoundInRaid}>
    allItemRequirements,        \* the merged list, sorted in place
    origin,                     \* history: origin[k] = input position of allItemRequirements[k]
    filterIdx,                  \* position of the filter callback in allItemRequirements
    incompleteItemRequirements, \* the requirements the filter has kept
    incompleteOrigin,           \* history: input positions of the kept requirements
    attempts,                   \* history: input positions in the order the filter visited them
    drainedReads,               \* history: positions whose check read a negative notFoundInRaid
    calcIdx,                    \* position of the forEach callback in incompleteItemRequirements
    itemDropRateMultipliers,    \* Record<tpl, {time.., raid.., isKey}>
    newLootTables,              \* result: newLootTables.staticLoot
    newLocations,               \* result
    pc                          \* position in getUpdatedLootTables

vars == << config, profile, questItemRequirements, hideoutItemRequirements, loot,
           locations, itemsInInventory, allItemRequirements, origin, filterIdx,
           incompleteItemRequirements, incompleteOrigin, attempts, drainedReads,
           calcIdx, itemDropRateMultipliers, newLootTables, newLocations, pc >>

inputs == << config, profile, questItemRequirements, hideoutItemRequirements, loot,
             locations >>

(***************************************************************************)
(* Arithmetic                                                              *)
(***************************************************************************)
\* the fixed-point unit: Scale stands for the real number 1
Scale == 10 * 10

Max(a, b) == IF a >= b THEN a ELSE b
Min(a, b) == IF a <= b THEN a ELSE b

\* Math.round(num / den) for den > 0: the nearest integer, halves rounded up
MathRound(num, den) == (2 * num + den) \div (2 * den)

EmptyRecord == [x \in {} |-> x]

\* obj[key] = value, adding the key when it is absent
Put(obj, key, value) ==
    [k \in DOMAIN obj \cup {key} |-> IF k = key THEN value ELSE obj[k]]

(***************************************************************************)
(* Inventory Aggregator                                                    *)
(***************************************************************************)
\* one callback of profile.characters.pmc.Inventory.items.forEach
AggregateItem(inv, item) ==
    LET count == IF "StackObjectsCount" \in DOMAIN item.upd
                 THEN item.upd.StackObjectsCount ELSE 1
        fir == IF "SpawnedInSession" \in DOMAIN item.upd
               THEN item.upd.SpawnedInSession ELSE FALSE
        itemRecord == IF item._tpl \in DOMAIN inv THEN inv[item._tpl]
                      ELSE [foundInRaid |-> 0, notFoundInRaid |-> 0]
    IN  Put(inv, item._tpl,
            IF fir
            THEN [itemRecord EXCEPT !.foundInRaid = @ + count]
            ELSE [itemRecord EXCEPT !.notFoundInRaid = @ + count])

RECURSIVE AggregateFrom(_, _, _)
AggregateFrom(inv, items, k) ==
    IF k > Len(items) THEN inv
    ELSE AggregateFrom(AggregateItem(inv, items[k]), items, k + 1)

AggregateInventory(items) == AggregateFrom(EmptyRecord, items, 1)

(***************************************************************************)
(* Requirement Resolver                                                    *)
(***************************************************************************)
\* checkIfHasEnoughAndRemove with the fallback's last statement left out: the
\* shortfall is not subtracted from the found-in-raid count
checkIfHasEnoughKeepFir(itemCount, amountNeeded, foundInRaid) ==
    IF foundInRaid
    THEN IF itemCount.foundInRaid >= amountNeeded
         THEN [ok |-> TRUE,
               itemCount |-> [itemCount EXCEPT !.foundInRaid = @ - amountNeeded]]
         ELSE [ok |-> FALSE, itemCount |-> itemCount]
    ELSE IF itemCount.notFoundInRaid >= amountNeeded
         THEN [ok |-> TRUE,
               itemCount |-> [itemCount EXCEPT !.notFoundInRaid = @ - amountNeeded]]
         ELSE IF itemCount.notFoundInRaid + itemCount.foundInRaid >= amountNeeded
              THEN [ok |-> TRUE,
                    itemCount |-> [itemCount EXCEPT !.notFoundInRaid = -1]]
              ELSE [ok |-> FALSE, itemCount |-> itemCount]

\* returns the boolean result and the inventory record as the call leaves it
checkIfHasEnoughAndRemove(itemCount, amountNeeded, foundInRaid) ==
    IF foundInRaid
    THEN IF itemCount.foundInRaid >= amountNeeded
         THEN [ok |-> TRUE,
               itemCount |-> [itemCount EXCEPT !.foundInRaid = @ - amountNeeded]]
         ELSE [ok |-> FALSE, itemCount |-> itemCount]
    ELSE IF itemCount.notFoundInRaid >= amountNeeded
         THEN [ok |-> TRUE,
               itemCount |-> [itemCount EXCEPT !.notFoundInRaid = @ - amountNeeded]]
         ELSE IF itemCount.notFoundInRaid + itemCount.foundInRaid >= amountNeeded
              THEN [ok |-> TRUE,
                    itemCount |->
                        [foundInRaid |-> itemCount.foundInRaid
                                         - (amountNeeded - itemCount.notFoundInRaid),
                         notFoundInRaid |-> -1]]
              ELSE [ok |-> FALSE, itemCount |-> itemCount]

\* a.type === "quest" && a.foundInRaid
IsFir(req) == req.type = "quest" /\ req.foundInRaid

\* SortCompare without the found-in-raid priority: ages alone decide
SortCompareAgeOnly(cfg, a, b) ==
    IF cfg.dropRateIncreaseType = "raid"
    THEN a.raidsSinceStarted - b.raidsSinceStarted
    ELSE a.secondsSinceStarted - b.secondsSinceStarted

\* the comparator handed to allItemRequirements.sort
SortCompare(cfg, a, b) ==
    IF IsFir(a) /\ ~IsFir(b) THEN -1
    ELSE IF IsFir(b) /\ ~IsFir(a) THEN 1
    ELSE IF cfg.dropRateIncreaseType = "raid"
         THEN a.raidsSinceStarted - b.raidsSinceStarted
         ELSE a.secondsSinceStarted - b.secondsSinceStarted

\* Array.prototype.sort is a stable sort: an element moves in front of the
\* elements it compares smaller than, and never in front of an equal one.
\* Elements are pairs << requirement, input position >>; only the requirement
\* is compared.
RECURSIVE InsertSorted(_, _, _)
InsertSorted(cfg, sorted, e) ==
    IF sorted = << >> THEN << e >>
    ELSE LET last == sorted[Len(sorted)]
         IN  IF SortCompare(cfg, last[1], e[1]) > 0
             THEN Append(InsertSorted(cfg, SubSeq(sorted, 1, Len(sorted) - 1), e), last)
             ELSE Append(sorted, e)

RECURSIVE SortFrom(_, _, _, _)
SortFrom(cfg, sorted, list, k) ==
    IF k > Len(list) THEN sorted
    ELSE SortFrom(cfg, InsertSorted(cfg, sorted, list[k]), list, k + 1)

SortRequirements(cfg, list) ==
    SortFrom(cfg, << >>, [k \in 1..Len(list) |-> << list[k], k >>], 1)

\* the amount the filter callback asks checkIfHasEnoughAndRemove for
AmountNeeded(prof, req) ==
    IF req.type = "questKey" THEN 1
    ELSE IF req.type = "quest"
         THEN req.amountRequired
              - (IF req.conditionId \in DOMAIN prof.BackendCounters
                 THEN prof.BackendCounters[req.conditionId] ELSE 0)
         ELSE req.amountRequired

\* one callback of allItemRequirements.filter: whether the requirement is
\* kept, and the inventory as the callback leaves it
FilterRequirement(prof, inv, req) ==
    IF req.itemId \notin DOMAIN inv
    THEN [keep |-> TRUE, inv |-> inv]
    ELSE LET r == checkIfHasEnoughAndRemove(inv[req.itemId], AmountNeeded(prof, req),
                                            IsFir(req))
         IN  [keep |-> ~r.ok, inv |-> [inv EXCEPT ![req.itemId] = r.itemCount]]

\* the whole filter pass over a sorted list of pairs << requirement, position >>:
\* the pairs kept, in order, and the inventory at the end
RECURSIVE FilterFrom(_, _, _, _, _)
FilterFrom(prof, inv, kept, sorted, k) ==
    IF k > Len(sorted) THEN [kept |-> kept, inv |-> inv]
    ELSE LET r == FilterRequirement(prof, inv, sorted[k][1])
         IN  FilterFrom(prof, r.inv,
                        IF r.keep THEN Append(kept, sorted[k]) ELSE kept,
                        sorted, k + 1)

(***************************************************************************)
(* Multiplier Calculator                                                   *)
(***************************************************************************)
\* HoursSinceStarted as the hour field of a duration split into days and hours
HoursOfDay(seconds) == MathRound(seconds, 60 * 60) % 24

\* Math.round(req.secondsSinceStarted / 60 / 60)
HoursSinceStarted(seconds) == MathRound(seconds, 60 * 60)

\* CalcRequirement with the increasesStack choice left out: every candidate is
\* taken against the baseline 1
CalcRequirementNoStack(cfg, mults, req) ==
    LET stats == IF req.itemId \in DOMAIN mults THEN mults[req.itemId]
                 ELSE [timeBasedDropRateMultiplier |-> Scale,
                       raidBasedDropRateMultiplier |-> Scale,
                       isKey |-> (req.type = "questKey")]
        timeMult == HoursSinceStarted(req.secondsSinceStarted)
                    * cfg.dropRateIncreasePerHour + Scale
        raidMult == req.raidsSinceStarted * cfg.dropRateIncreasePerRaid + Scale
    IN  Put(mults, req.itemId,
            [timeBasedDropRateMultiplier |->
                 Max(stats.timeBasedDropRateMultiplier, timeMult),
             raidBasedDropRateMultiplier |->
                 Max(stats.raidBasedDropRateMultiplier, raidMult),
             isKey |-> stats.isKey])

\* one callback of incompleteItemRequirements.forEach
CalcRequirement(cfg, mults, req) ==
    LET stats == IF req.itemId \in DOMAIN mults THEN mults[req.itemId]
                 ELSE [timeBasedDropRateMultiplier |-> Scale,
                       raidBasedDropRateMultiplier |-> Scale,
                       isKey |-> (req.type = "questKey")]
        hoursSinceStarted == HoursSinceStarted(req.secondsSinceStarted)
        timeMult == hoursSinceStarted * cfg.dropRateIncreasePerHour
                    + (IF cfg.increasesStack THEN stats.timeBasedDropRateMultiplier
                       ELSE Scale)
        raidMult == req.raidsSinceStarted * cfg.dropRateIncreasePerRaid
                    + (IF cfg.increasesStack THEN stats.raidBasedDropRateMultiplier
                       ELSE Scale)
    IN  Put(mults, req.itemId,
            [timeBasedDropRateMultiplier |->
                 Max(stats.timeBasedDropRateMultiplier, timeMult),
             raidBasedDropRateMultiplier |->
                 Max(stats.raidBasedDropRateMultiplier, raidMult),
             isKey |-> stats.isKey])

RECURSIVE CalcFrom(_, _, _, _)
CalcFrom(cfg, mults, reqs, k) ==
    IF k > Len(reqs) THEN mults
    ELSE CalcFrom(cfg, CalcRequirement(cfg, mults, reqs[k]), reqs, k + 1)

\* the multiplier of the configured basis
ActiveMultiplier(cfg, stats) ==
    IF cfg.dropRateIncreaseType = "raid"
    THEN stats.raidBasedDropRateMultiplier
    ELSE stats.timeBasedDropRateMultiplier

(***************************************************************************)
(* Loot Table Rewriter                                                     *)
(***************************************************************************)
\* ScalingFactor without Math.min: the multiplier is not clamped
ScalingFactorNoCeiling(cfg, maybeMult) ==
    ActiveMultiplier(cfg, maybeMult)
    * (IF maybeMult.isKey THEN cfg.keysAdditionalMultiplier ELSE Scale)

\* the factor applied to the probability before Math.round, in units of
\* 1 / (Scale * Scale)
ScalingFactor(cfg, maybeMult) ==
    Min(cfg.maxDropRateMultiplier, ActiveMultiplier(cfg, maybeMult))
    * (IF maybeMult.isKey THEN cfg.keysAdditionalMultiplier ELSE Scale)

\* getNewLootProbability with Math.floor in the place of Math.round
getNewLootProbabilityFloor(cfg, mults, tpl, relativeProbability) ==
    IF tpl \in DOMAIN mults
    THEN (relativeProbability * ScalingFactor(cfg, mults[tpl])) \div (Scale * Scale)
    ELSE relativeProbability

getNewLootProbability(cfg, mults, tpl, relativeProbability) ==
    IF tpl \in DOMAIN mults
    THEN MathRound(relativeProbability * ScalingFactor(cfg, mults[tpl]), Scale * Scale)
    ELSE relativeProbability

\* the loop over Object.entries(loot.staticLoot)
RewriteStaticLoot(cfg, mults, staticLoot) ==
    [containerId \in DOMAIN staticLoot |->
        LET container == staticLoot[containerId]
        IN  [itemcountDistribution |-> container.itemcountDistribution,
             itemDistribution |->
                 [k \in 1..Len(container.itemDistribution) |->
                     LET dist == container.itemDistribution[k]
                     IN  [tpl |-> dist.tpl,
                          relativeProbability |->
                              getNewLootProbability(cfg, mults, dist.tpl,
                                                    dist.relativeProbability)]]]]

\* spawnPoint.template.Items.forEach: a later instance with the same _id wins
RECURSIVE IdToTplFrom(_, _, _)
IdToTplFrom(idToTpl, items, k) ==
    IF k > Len(items) THEN idToTpl
    ELSE IdToTplFrom(Put(idToTpl, items[k]._id, items[k]._tpl), items, k + 1)

\* RewriteSpawnPoint that leaves out the entries whose instance id is not in
\* the template, instead of passing them through
RewriteSpawnPointKnownOnly(cfg, mults, spawnPoint) ==
    LET idToTpl == IdToTplFrom(EmptyRecord, spawnPoint.template.Items, 1)
        known == SelectSeq(spawnPoint.itemDistribution,
                           LAMBDA d : d.composedKey.key \in DOMAIN idToTpl)
    IN  [spawnPoint EXCEPT !.itemDistribution =
            [k \in 1..Len(known) |->
                [composedKey |-> [key |-> known[k].composedKey.key],
                 relativeProbability |->
                     getNewLootProbability(cfg, mults, idToTpl[known[k].composedKey.key],
                                           known[k].relativeProbability)]]]

RewriteSpawnPoint(cfg, mults, spawnPoint) ==
    LET idToTpl == IdToTplFrom(EmptyRecord, spawnPoint.template.Items, 1)
    IN  [spawnPoint EXCEPT !.itemDistribution =
            [k \in 1..Len(spawnPoint.itemDistribution) |->
                LET itemDistribution == spawnPoint.itemDistribution[k]
                    id == itemDistribution.composedKey.key
                IN  IF id \notin DOMAIN idToTpl
                    THEN itemDistribution
                    ELSE [composedKey |-> [key |-> id],
                          relativeProbability |->
                              getNewLootProbability(cfg, mults, idToTpl[id],
                                  itemDistribution.relativeProbability)]]]

\* the loop over Object.entries(locations)
RewriteLocations(cfg, mults, locs) ==
    [locationId \in DOMAIN locs |->
        LET location == locs[locationId]
        IN  IF "looseLoot" \notin DOMAIN location
            THEN location
            ELSE [location EXCEPT !.looseLoot.spawnpoints =
                     [k \in 1..Len(location.looseLoot.spawnpoints) |->
                         RewriteSpawnPoint(cfg, mults, location.looseLoot.spawnpoints[k])]]]

(***************************************************************************)
(* getUpdatedLootTables, step by step                                      *)
(***************************************************************************)
\* the state after the arguments are bound, before the first statement
InitWith(cfg, prof, quests, hideouts, staticLoot, locs) ==
    /\ config = cfg
    /\ profile = prof
    /\ questItemRequirements = quests
    /\ hideoutItemRequirements = hideouts
    /\ loot = [staticLoot |-> staticLoot]
    /\ locations = locs
    /\ itemsInInventory = EmptyRecord
    /\ allItemRequirements = << >>
    /\ origin = << >>
    /\ filterIdx = 1
    /\ incompleteItemRequirements = << >>
    /\ incompleteOrigin = << >>
    /\ attempts = << >>
    /\ drainedReads = {}
    /\ calcIdx = 1
    /\ itemDropRateMultipliers = EmptyRecord
    /\ newLootTables = [staticLoot |-> EmptyRecord]
    /\ newLocations = EmptyRecord
    /\ pc = "aggregate"

\* profile.characters.pmc.Inventory.items.forEach(...)
Aggregate ==
    /\ pc = "aggregate"
    /\ itemsInInventory' = AggregateInventory(profile.Inventory.items)
    /\ pc' = "sort"
    /\ UNCHANGED << inputs, allItemRequirements, origin, filterIdx,
                    incompleteItemRequirements, incompleteOrigin, attempts,
                    drainedReads, calcIdx, itemDropRateMultipliers, newLootTables,
                    newLocations >>

\* allItemRequirements = [...quest, ...hideout]; allItemRequirements.sort(...)
Sort ==
    /\ pc = "sort"
    /\ LET sorted == SortRequirements(config,
                         questItemRequirements \o hideoutItemRequirements)
       IN  /\ allItemRequirements' = [k \in 1..Len(sorted) |-> sorted[k][1]]
           /\ origin' = [k \in 1..Len(sorted) |-> sorted[k][2]]
           /\ pc' = IF Len(sorted) = 0 THEN "static" ELSE "filter"
    /\ filterIdx' = 1
    /\ UNCHANGED << inputs, itemsInInventory, incompleteItemRequirements,
                    incompleteOrigin, attempts, drainedReads, calcIdx,
                    itemDropRateMultipliers, newLootTables, newLocations >>

\* one callback of allItemRequirements.filter
Filter ==
    /\ pc = "filter"
    /\ filterIdx <= Len(allItemRequirements)
    /\ LET req == allItemRequirements[filterIdx]
           pos == origin[filterIdx]
           r == FilterRequirement(profile, itemsInInventory, req)
           kept == IF r.keep THEN Append(incompleteItemRequirements, req)
                   ELSE incompleteItemRequirements
       IN  /\ itemsInInventory' = r.inv
           /\ incompleteItemRequirements' = kept
           /\ incompleteOrigin' = IF r.keep THEN Append(incompleteOrigin, pos)
                                  ELSE incompleteOrigin
           /\ attempts' = Append(attempts, pos)
           /\ drainedReads' =
                  IF /\ req.itemId \in DOMAIN itemsInInventory
                     /\ ~IsFir(req)
                     /\ itemsInInventory[req.itemId].notFoundInRaid < 0
                  THEN drainedReads \cup {pos} ELSE drainedReads
           /\ pc' = IF filterIdx < Len(allItemRequirements) THEN "filter"
                    ELSE IF Len(kept) = 0 THEN "static" ELSE "calc"
    /\ filterIdx' = filterIdx + 1
    /\ calcIdx' = 1
    /\ UNCHANGED << inputs, allItemRequirements, origin, itemDropRateMultipliers,
                    newLootTables, newLocations >>

\* one callback of incompleteItemRequirements.forEach
Calc ==
    /\ pc = "calc"
    /\ calcIdx <= Len(incompleteItemRequirements)
    /\ itemDropRateMultipliers' =
           CalcRequirement(config, itemDropRateMultipliers,
                           incompleteItemRequirements[calcIdx])
    /\ calcIdx' = calcIdx + 1
    /\ pc' = IF calcIdx < Len(incompleteItemRequirements) THEN "calc" ELSE "static"
    /\ UNCHANGED << inputs, itemsInInventory, allItemRequirements, origin, filterIdx,
                    incompleteItemRequirements, incompleteOrigin, attempts,
                    drainedReads, newLootTables, newLocations >>

\* the loop that builds newStaticLoot, and newLootTables = {...loot, staticLoot}
RewriteStatic ==
    /\ pc = "static"
    /\ newLootTables' =
           [loot EXCEPT !.staticLoot =
               RewriteStaticLoot(config, itemDropRateMultipliers, loot.staticLoot)]
    /\ pc' = "locations"
    /\ UNCHANGED << inputs, itemsInInventory, allItemRequirements, origin, filterIdx,
                    incompleteItemRequirements, incompleteOrigin, attempts,
                    drainedReads, calcIdx, itemDropRateMultipliers, newLocations >>

\* the loop that builds newLocations; then the function returns
RewriteLoose ==
    /\ pc = "locations"
    /\ newLocations' = RewriteLocations(config, itemDropRateMultipliers, locations)
    /\ pc' = "done"
    /\ UNCHANGED << inputs, itemsInInventory, allItemRequirements, origin, filterIdx,
                    incompleteItemRequirements, incompleteOrigin, attempts,
                    drainedReads, calcIdx, itemDropRateMultipliers, newLootTables >>

Next ==
    \/ Aggregate
    \/ Sort
    \/ Filter
    \/ Calc
    \/ RewriteStatic
    \/ RewriteLoose

(***************************************************************************)
(* Inputs                                                                  *)
(***************************************************************************)
\* the longest merged requirement list (quest list plus hideout list)
MaxReqs == 3
\* the most stacks in the inventory
MaxStacks == 2
\* the most entries in one item distribution
MaxEntries == 2

SeqsUpTo(S, n) == UNION { [1..k -> S] : k \in 0..n }

\* the pairs of a quest list and a hideout list, at most MaxReqs long together
ReqLists(questDomain, hideoutDomain) ==
    UNION { SeqsUpTo(questDomain, MaxReqs - h) \X [1..h -> hideoutDomain]
            : h \in 0..MaxReqs }

\* ages are pairs << secondsSinceStarted, raidsSinceStarted >>
QuestReq(item, amount, fir, cond, age) ==
    [type |-> "quest", itemId |-> item, amountRequired |-> amount,
     secondsSinceStarted |-> age[1], raidsSinceStarted |-> age[2],
     conditionId |-> cond, foundInRaid |-> fir]

KeyReq(item, age) ==
    [type |-> "questKey", itemId |-> item, amountRequired |-> 1,
     secondsSinceStarted |-> age[1], raidsSinceStarted |-> age[2]]

HideoutReq(item, amount, age) ==
    [type |-> "hideout", itemId |-> item, amountRequired |-> amount,
     secondsSinceStarted |-> age[1], raidsSinceStarted |-> age[2]]

Stack(tpl, upd) == [_tpl |-> tpl, upd |-> upd]

Profile(items, counters) == [Inventory |-> [items |-> items], BackendCounters |-> counters]

Config(type, stack, ceiling) ==
    [maxDropRateMultiplier |-> ceiling,
     dropRateIncreaseType |-> type,
     dropRateIncreasePerRaid |-> 10,
     dropRateIncreasePerHour |-> 5,
     keysAdditionalMultiplier |-> 150,
     increasesStack |-> stack]

Items == {"X", "Y"}

\* one container and a location with loose loot, one without
StaticLootOf(dist) ==
    [crate |-> [itemcountDistribution |-> << [count |-> 1, relativeProbability |-> 7] >>,
                itemDistribution |-> dist]]

LocationsOf(dist) ==
    [bigmap |-> [base |-> "bigmap",
                 looseLoot |-> [spawnpointCount |-> 1,
                     spawnpoints |-> <<
                         [locationId |-> "p1",
                          probability |-> 25,
                          template |-> [Id |-> "t1",
                                        Items |-> << [_id |-> "i1", _tpl |-> "X"],
                                                     [_id |-> "i2", _tpl |-> "Y"] >>],
                          itemDistribution |-> dist],
                         [locationId |-> "p2",
                          probability |-> 10,
                          template |-> [Id |-> "t2",
                                        Items |-> << [_id |-> "i1", _tpl |-> "Y"],
                                                     [_id |-> "i1", _tpl |-> "X"] >>],
                          itemDistribution |->
                              << [composedKey |-> [key |-> "i1"],
                                  relativeProbability |-> 50] >>] >>]],
     hideout |-> [base |-> "hideout"]]

DefaultStaticLoot == StaticLootOf(<< [tpl |-> "X", relativeProbability |-> 50] >>)
DefaultLocations ==
    LocationsOf(<< [composedKey |-> [key |-> "i1"], relativeProbability |-> 50] >>)

\* --- the Requirement Resolver's inputs ---
\* the progress counter c1 stands at 1 and c2 is missing, so the quest
\* requirements below need 1, 1 and 2 more units
ResolverAges == [early |-> << 3600, 3 >>, late |-> << 7200, 1 >>, tie |-> << 7200, 3 >>]

ResolverQuests ==
    { QuestReq("X", 1, TRUE, "c2", ResolverAges.late),
      QuestReq("X", 1, FALSE, "c2", ResolverAges.early),
      QuestReq("X", 3, FALSE, "c1", ResolverAges.late),
      KeyReq("X", ResolverAges.early) }

ResolverHideouts ==
    { HideoutReq("X", 1, ResolverAges.tie), HideoutReq("Y", 1, ResolverAges.early) }

ResolverStacks ==
    { Stack("X", EmptyRecord),
      Stack("X", [StackObjectsCount |-> 2, SpawnedInSession |-> TRUE]),
      Stack("Y", [StackObjectsCount |-> 1, SpawnedInSession |-> FALSE]) }

InitResolver ==
    \E type \in {"raid", "time"} :
    \E items \in SeqsUpTo(ResolverStacks, MaxStacks) :
    \E lists \in ReqLists(ResolverQuests, ResolverHideouts) :
        InitWith(Config(type, FALSE, 500), Profile(items, [c1 |-> 1]),
                 lists[1], lists[2], DefaultStaticLoot, DefaultLocations)

SpecResolver == InitResolver /\ [][Next]_vars

(***************************************************************************)
(* Properties of the Requirement Resolver                                  *)
(***************************************************************************)
\* the merged input list, before the sort
InputRequirements == questItemRequirements \o hideoutItemRequirements

RECURSIVE SumOver(_, _)
\* the sum of need[p] over the positions p of S
SumOver(S, need) ==
    IF S = {} THEN 0
    ELSE LET p == CHOOSE q \in S : TRUE
         IN  need[p] + SumOver(S \ {p}, need)

\* the amount each input requirement needs
Needs == [p \in 1..Len(InputRequirements) |-> AmountNeeded(profile, InputRequirements[p])]

\* the stock of an item in the player's stacks, found in raid or not
StackCount(item) ==
    IF "StackObjectsCount" \in DOMAIN item.upd THEN item.upd.StackObjectsCount ELSE 1
StackIsFir(item) ==
    "SpawnedInSession" \in DOMAIN item.upd /\ item.upd.SpawnedInSession
Stock(tpl, fir) ==
    LET items == profile.Inventory.items
        counts == [k \in 1..Len(items) |-> StackCount(items[k])]
    IN  SumOver({ k \in 1..Len(items) :
                    items[k]._tpl = tpl /\ StackIsFir(items[k]) = fir }, counts)

Range(seq) == { seq[k] : k \in 1..Len(seq) }
FirRequired(req) == req.type = "quest" /\ req.foundInRaid
PositionsOf(tpl) == { p \in 1..Len(InputRequirements) : InputRequirements[p].itemId = tpl }
\* the requirements the filter has visited and dropped
Satisfied == Range(attempts) \ Range(incompleteOrigin)
FilterFinished == pc \in {"calc", "static", "locations", "done"}

\* C2: when an item's stock (found in raid plus not found in raid) equals the
\* sum of the amounts its requirements need, and the found-in-raid stock covers
\* the FIR-required ones, no requirement for the item is left incomplete.
C2_ConsumptionExactness ==
    FilterFinished =>
        \A tpl \in Items :
            ( /\ PositionsOf(tpl) # {}
              /\ Stock(tpl, TRUE) + Stock(tpl, FALSE) = SumOver(PositionsOf(tpl), Needs)
              /\ SumOver({ p \in PositionsOf(tpl) : FirRequired(InputRequirements[p]) },
                         Needs) <= Stock(tpl, TRUE) )
            => Range(incompleteOrigin) \cap PositionsOf(tpl) = {}

\* C7: the requirements satisfied for an item need together at most the
\* item's initial stock, and the satisfied FIR-required ones at most its
\* initial found-in-raid stock, when no amount needed is negative.
C7_UnitsUsedOnce ==
    \A tpl \in Items :
        (\A p \in PositionsOf(tpl) : Needs[p] >= 0)
        => /\ SumOver(Satisfied \cap PositionsOf(tpl), Needs)
                  <= Stock(tpl, TRUE) + Stock(tpl, FALSE)
           /\ SumOver({ p \in Satisfied \cap PositionsOf(tpl) :
                          FirRequired(InputRequirements[p]) }, Needs)
                  <= Stock(tpl, TRUE)

\* the pass is over, the fallback has drained X's not-found-in-raid stock, a
\* FIR-required requirement and two others for X were satisfied
C7_Witness ==
    /\ pc = "done"
    /\ "X" \in DOMAIN itemsInInventory
    /\ itemsInInventory["X"].notFoundInRaid = -1
    /\ Cardinality(Satisfied \cap PositionsOf("X")) = 3
    /\ \E p \in Satisfied : FirRequired(InputRequirements[p])

\* C8: no consumption check reads a notFoundInRaid count that is negative.
C8_DrainedNeverRead == drainedReads = {}

\* C10: the filter visits every FIR-required quest requirement before any
\* other requirement, each tier in ascending age of the configured basis,
\* and requirements of equal age in their input order.
AgeOf(req) ==
    IF config.dropRateIncreaseType = "raid" THEN req.raidsSinceStarted
    ELSE req.secondsSinceStarted

C10_ProcessingOrder ==
    /\ \A i, j \in 1..Len(attempts) :
           i < j =>
               LET a == InputRequirements[attempts[i]]
                   b == InputRequirements[attempts[j]]
               IN  /\ ~(~FirRequired(a) /\ FirRequired(b))
                   /\ FirRequired(a) = FirRequired(b) => AgeOf(a) <= AgeOf(b)
                   /\ (FirRequired(a) = FirRequired(b) /\ AgeOf(a) = AgeOf(b))
                          => attempts[i] < attempts[j]
    /\ FilterFinished =>
           /\ Len(attempts) = Len(InputRequirements)
           /\ Range(attempts) = 1..Len(InputRequirements)

\* three requirements were visited: the FIR-required one came last in the
\* input and was visited first, and the other two have equal age
C10_Witness ==
    /\ pc = "done"
    /\ Len(attempts) = 3
    /\ attempts[1] = 3
    /\ FirRequired(InputRequirements[3])
    /\ AgeOf(InputRequirements[1]) = AgeOf(InputRequirements[2])
    /\ attempts[2] = 1

(***************************************************************************)
(* Properties of the Multiplier Calculator                                 *)
(***************************************************************************)
\* --- the Multiplier Calculator's inputs ---
\* half an hour (rounds to 1 h), 5 h, 20 h and 25 h; the raid counts order
\* the last three differently
CalcAges == [a1 |-> << 1800, 1 >>, a5 |-> << 18000, 5 >>,
             a20 |-> << 72000, 2 >>, a25 |-> << 90000, 10 >>]

CalcQuests ==
    { QuestReq("X", 2, FALSE, "c2", CalcAges.a1),
      QuestReq("X", 1, FALSE, "c2", CalcAges.a5),
      QuestReq("X", 1, TRUE, "c2", CalcAges.a5),
      KeyReq("X", CalcAges.a20) }

CalcHideouts ==
    { HideoutReq("X", 1, CalcAges.a25), HideoutReq("Y", 1, CalcAges.a5) }

CalcStacks == { Stack("X", [StackObjectsCount |-> 2]) }

InitCalc ==
    \E type \in {"raid", "time"} :
    \E stack \in BOOLEAN :
    \E items \in SeqsUpTo(CalcStacks, MaxStacks) :
    \E lists \in ReqLists(CalcQuests, CalcHideouts) :
        InitWith(Config(type, stack, 500), Profile(items, [c1 |-> 1]),
                 lists[1], lists[2], DefaultStaticLoot, DefaultLocations)

SpecCalc == InitCalc /\ [][Next]_vars

CalcFinished == pc \in {"static", "locations", "done"}

\* the whole computation on a merged input list: the pairs
\* << requirement, input position >> left incomplete, and the multipliers
RunResolver(list) ==
    FilterFrom(profile, AggregateInventory(profile.Inventory.items), << >>,
               SortRequirements(config, list), 1).kept
RunMultipliers(list) ==
    LET kept == RunResolver(list)
    IN  CalcFrom(config, EmptyRecord, [k \in 1..Len(kept) |-> kept[k][1]], 1)

\* the factor an item's probabilities are raised by: 1 without a record
MultiplierOf(mults, tpl) ==
    IF tpl \in DOMAIN mults THEN ActiveMultiplier(config, mults[tpl]) ELSE Scale

\* the input list with the age of requirement p, in the configured basis, set
\* to age
WithAge(list, p, age) ==
    IF config.dropRateIncreaseType = "raid"
    THEN [list EXCEPT ![p].raidsSinceStarted = age]
    ELSE [list EXCEPT ![p].secondsSinceStarted = age]

LargerAges(req) ==
    IF config.dropRateIncreaseType = "raid"
    THEN { a \in {1, 2, 5, 10} : a > req.raidsSinceStarted }
    ELSE { a \in {1800, 18000, 72000, 90000} : a > req.secondsSinceStarted }

\* C3 as stated: a larger age of one requirement never lowers the multiplier
\* of its item when the whole computation is run again.
C3_MonotoneWholeRun ==
    pc = "done" =>
        \A p \in 1..Len(InputRequirements) :
            \A age \in LargerAges(InputRequirements[p]) :
                MultiplierOf(RunMultipliers(WithAge(InputRequirements, p, age)),
                             InputRequirements[p].itemId)
                    >= MultiplierOf(itemDropRateMultipliers, InputRequirements[p].itemId)

\* C3, amended: a larger age of one requirement never lowers the multiplier
\* of its item when the run with the larger age leaves the same requirements
\* incomplete.
C3_MonotoneSameIncomplete ==
    pc = "done" =>
        \A p \in 1..Len(InputRequirements) :
            \A age \in LargerAges(InputRequirements[p]) :
                LET list == WithAge(InputRequirements, p, age)
                    kept == RunResolver(list)
                IN  { kept[k][2] : k \in 1..Len(kept) } = Range(incompleteOrigin)
                    => MultiplierOf(RunMultipliers(list), InputRequirements[p].itemId)
                           >= MultiplierOf(itemDropRateMultipliers,
                                           InputRequirements[p].itemId)

\* a requirement that is incomplete, whose larger age changes the order of the
\* list, keeps the incomplete set and strictly raises the multiplier
C3_Witness ==
    /\ pc = "done"
    /\ \E p \in Range(incompleteOrigin) :
       \E age \in LargerAges(InputRequirements[p]) :
           LET list == WithAge(InputRequirements, p, age)
               kept == RunResolver(list)
               sorted == SortRequirements(config, list)
           IN  /\ { kept[k][2] : k \in 1..Len(kept) } = Range(incompleteOrigin)
               /\ [k \in 1..Len(sorted) |-> sorted[k][2]] # origin
               /\ Len(incompleteOrigin) >= 2
               /\ MultiplierOf(RunMultipliers(list), InputRequirements[p].itemId)
                      > MultiplierOf(itemDropRateMultipliers, InputRequirements[p].itemId)

\* C5: an item's record has isKey exactly when one of its incomplete
\* requirements is a quest key.
C5_IsKeyIffAnyQuestKey ==
    CalcFinished =>
        \A tpl \in Items :
            (tpl \in DOMAIN itemDropRateMultipliers /\ itemDropRateMultipliers[tpl].isKey)
            <=> (\E k \in 1..Len(incompleteItemRequirements) :
                     /\ incompleteItemRequirements[k].itemId = tpl
                     /\ incompleteItemRequirements[k].type = "questKey")

\* C9: the multipliers are 1 plus the largest contribution (age times rate)
\* of the item's incomplete requirements, or 1 plus their sum when increases
\* stack, and every processing order of the incomplete requirements gives them.
IncompleteOf(tpl) ==
    { k \in 1..Len(incompleteItemRequirements) : incompleteItemRequirements[k].itemId = tpl }

RECURSIVE MaxOver(_, _)
MaxOver(S, f) ==
    IF S = {} THEN 0
    ELSE LET k == CHOOSE q \in S : TRUE
         IN  Max(f[k], MaxOver(S \ {k}, f))

Combined(S, contribution) ==
    Scale + (IF config.increasesStack THEN SumOver(S, contribution)
             ELSE MaxOver(S, contribution))

Orderings(n) == { f \in [1..n -> 1..n] : \A i, j \in 1..n : f[i] = f[j] => i = j }

C9_ClosedForm ==
    CalcFinished =>
        LET reqs == incompleteItemRequirements
            hours == [k \in 1..Len(reqs) |->
                         ((2 * reqs[k].secondsSinceStarted + 3600) \div 7200)
                         * config.dropRateIncreasePerHour]
            raids == [k \in 1..Len(reqs) |->
                         reqs[k].raidsSinceStarted * config.dropRateIncreasePerRaid]
        IN  /\ DOMAIN itemDropRateMultipliers = { reqs[k].itemId : k \in 1..Len(reqs) }
            /\ \A tpl \in DOMAIN itemDropRateMultipliers :
                   /\ itemDropRateMultipliers[tpl].timeBasedDropRateMultiplier
                          = Combined(IncompleteOf(tpl), hours)
                   /\ itemDropRateMultipliers[tpl].raidBasedDropRateMultiplier
                          = Combined(IncompleteOf(tpl), raids)
            /\ \A f \in Orderings(Len(reqs)) :
                   LET other == CalcFrom(config, EmptyRecord,
                                         [k \in 1..Len(reqs) |-> reqs[f[k]]], 1)
                   IN  /\ DOMAIN other = DOMAIN itemDropRateMultipliers
                       /\ \A tpl \in DOMAIN other :
                              /\ other[tpl].timeBasedDropRateMultiplier
                                     = itemDropRateMultipliers[tpl].timeBasedDropRateMultiplier
                              /\ other[tpl].raidBasedDropRateMultiplier
                                     = itemDropRateMultipliers[tpl].raidBasedDropRateMultiplier

\* increases stack: requirements of 20 h and of 5 h for X at 0.05 per hour
\* are incomplete and the time multiplier is 2.25
C9_Witness ==
    /\ pc = "done"
    /\ config.increasesStack
    /\ { incompleteItemRequirements[k].secondsSinceStarted : k \in IncompleteOf("X") }
           = {72000, 18000}
    /\ Cardinality(IncompleteOf("X")) = 2
    /\ itemDropRateMultipliers["X"].timeBasedDropRateMultiplier = 225

(***************************************************************************)
(* Properties of the Loot Table Rewriter                                   *)
(***************************************************************************)
\* the largest original probability the function is asked about
MaxProbability == 60

\* --- the Loot Table Rewriter's inputs ---
RewriteRequirements ==
    { << << >>, << >> >>,
      << << KeyReq("X", CalcAges.a25) >>, << >> >>,
      << << >>, << HideoutReq("X", 1, CalcAges.a25) >> >>,
      << << QuestReq("X", 1, TRUE, "c2", CalcAges.a5) >>, << >> >>,
      << << KeyReq("X", CalcAges.a1), QuestReq("X", 2, FALSE, "c1", CalcAges.a20) >>,
         << HideoutReq("Y", 1, CalcAges.a5) >> >>,
      << << QuestReq("X", 2, FALSE, "c2", CalcAges.a1) >>,
         << HideoutReq("Y", 1, CalcAges.a25) >> >> }

RewriteInventories == { << >>, << Stack("X", [StackObjectsCount |-> 2]) >> }

StaticEntries ==
    { [tpl |-> "X", relativeProbability |-> 50],
      [tpl |-> "X", relativeProbability |-> 1],
      [tpl |-> "Y", relativeProbability |-> 3] }

LooseEntries ==
    { [composedKey |-> [key |-> "i1"], relativeProbability |-> 3],
      [composedKey |-> [key |-> "i9"], relativeProbability |-> 7] }

InitRewrite ==
    \E type \in {"raid", "time"} :
    \E ceiling \in {150, 500} :
    \E items \in RewriteInventories :
    \E lists \in RewriteRequirements :
    \E static \in SeqsUpTo(StaticEntries, MaxEntries) :
    \E loose \in SeqsUpTo(LooseEntries, MaxEntries) :
        InitWith(Config(type, FALSE, ceiling), Profile(items, [c1 |-> 1]),
                 lists[1], lists[2], StaticLootOf(static), LocationsOf(loose))

SpecRewrite == InitRewrite /\ [][Next]_vars

\* whether new is what the reference gives for an entry of item tpl with the
\* original probability old: old itself when no incomplete requirement names
\* tpl, otherwise the integer nearest to
\* old * min(ceiling, multiplier) * (key bonus if isKey else 1), halves up
IsReference(tpl, old, new) ==
    IF \A k \in 1..Len(incompleteItemRequirements) :
           incompleteItemRequirements[k].itemId # tpl
    THEN new = old
    ELSE LET stats == itemDropRateMultipliers[tpl]
             mult == IF config.dropRateIncreaseType = "raid"
                     THEN stats.raidBasedDropRateMultiplier
                     ELSE stats.timeBasedDropRateMultiplier
             capped == IF mult > config.maxDropRateMultiplier
                       THEN config.maxDropRateMultiplier ELSE mult
             num == old * capped
                    * (IF stats.isKey THEN config.keysAdditionalMultiplier ELSE Scale)
             den == Scale * Scale
         IN  /\ 2 * den * new - den <= 2 * num
             /\ 2 * num < 2 * den * new + den
             /\ new >= 0

\* the item type of a loose-loot entry: the last template instance with the
\* entry's key
TplOfKey(spawnPoint, key) ==
    LET items == spawnPoint.template.Items
        hits == { k \in 1..Len(items) : items[k]._id = key }
    IN  items[CHOOSE k \in hits : \A h \in hits : h <= k]._tpl

\* C1: getNewLootProbability equals the reference, for every item type and
\* every original probability and for every entry of the rewritten tables.
C1_RewriteProbability ==
    /\ CalcFinished =>
           \A tpl \in Items \cup {"Z"} :
               \A old \in 0..MaxProbability :
                   IsReference(tpl, old,
                       getNewLootProbability(config, itemDropRateMultipliers, tpl, old))
    /\ pc \in {"locations", "done"} =>
           \A c \in DOMAIN loot.staticLoot :
               \A k \in 1..Len(loot.staticLoot[c].itemDistribution) :
                   IsReference(loot.staticLoot[c].itemDistribution[k].tpl,
                       loot.staticLoot[c].itemDistribution[k].relativeProbability,
                       newLootTables.staticLoot[c].itemDistribution[k].relativeProbability)
    /\ pc = "done" =>
           \A l \in { m \in DOMAIN locations : "looseLoot" \in DOMAIN locations[m] } :
               \A s \in 1..Len(locations[l].looseLoot.spawnpoints) :
                   LET old == locations[l].looseLoot.spawnpoints[s]
                       new == newLocations[l].looseLoot.spawnpoints[s]
                   IN  \A k \in 1..Len(old.itemDistribution) :
                           LET key == old.itemDistribution[k].composedKey.key
                           IN  IF \E i \in 1..Len(old.template.Items) :
                                      old.template.Items[i]._id = key
                               THEN IsReference(TplOfKey(old, key),
                                        old.itemDistribution[k].relativeProbability,
                                        new.itemDistribution[k].relativeProbability)
                               ELSE new.itemDistribution[k] = old.itemDistribution[k]

\* a key item under the ceiling 1.5: an entry of X goes from 1 to
\* round(1 * 1.5 * 1.5) = 2, an entry of Y is unchanged
C1_Witness ==
    /\ pc = "done"
    /\ "X" \in DOMAIN itemDropRateMultipliers
    /\ itemDropRateMultipliers["X"].isKey
    /\ config.maxDropRateMultiplier = 150
    /\ "Y" \notin DOMAIN itemDropRateMultipliers
    /\ loot.staticLoot["crate"].itemDistribution
           = << [tpl |-> "X", relativeProbability |-> 1],
                [tpl |-> "Y", relativeProbability |-> 3] >>
    /\ newLootTables.staticLoot["crate"].itemDistribution
           = << [tpl |-> "X", relativeProbability |-> 2],
                [tpl |-> "Y", relativeProbability |-> 3] >>

\* C4 as stated: the factor applied before rounding never exceeds
\* maxDropRateMultiplier, for every item with a record.
C4_FactorWithinCeiling ==
    \A tpl \in DOMAIN itemDropRateMultipliers :
        ScalingFactor(config, itemDropRateMultipliers[tpl])
            <= config.maxDropRateMultiplier * Scale

\* C4, amended: the factor applied before rounding never exceeds
\* maxDropRateMultiplier for an item that is not a key, and never exceeds
\* maxDropRateMultiplier times keysAdditionalMultiplier for a key.
C4_FactorWithinCeilingAndKeyBonus ==
    \A tpl \in DOMAIN itemDropRateMultipliers :
        ScalingFactor(config, itemDropRateMultipliers[tpl])
            <= config.maxDropRateMultiplier
               * (IF itemDropRateMultipliers[tpl].isKey
                  THEN config.keysAdditionalMultiplier ELSE Scale)

\* the multiplier of X is above the ceiling and X is not a key
C4_Witness ==
    /\ pc = "done"
    /\ "X" \in DOMAIN itemDropRateMultipliers
    /\ ~itemDropRateMultipliers["X"].isKey
    /\ ActiveMultiplier(config, itemDropRateMultipliers["X"]) > config.maxDropRateMultiplier
    /\ ScalingFactor(config, itemDropRateMultipliers["X"])
           = config.maxDropRateMultiplier * Scale

\* C6: the rewritten tables have the shape of the inputs: the same
\* containers, item-type ids and item-count distributions, the same spawn
\* points and instance-id keys, in the same order.
C6_ShapePreserved ==
    pc = "done" =>
        /\ DOMAIN newLootTables.staticLoot = DOMAIN loot.staticLoot
        /\ \A c \in DOMAIN loot.staticLoot :
               LET old == loot.staticLoot[c]
                   new == newLootTables.staticLoot[c]
               IN  /\ new.itemcountDistribution = old.itemcountDistribution
                   /\ Len(new.itemDistribution) = Len(old.itemDistribution)
                   /\ \A k \in 1..Len(old.itemDistribution) :
                          /\ DOMAIN new.itemDistribution[k] = {"tpl", "relativeProbability"}
                          /\ new.itemDistribution[k].tpl = old.itemDistribution[k].tpl
        /\ DOMAIN newLocations = DOMAIN locations
        /\ \A l \in DOMAIN locations :
               IF "looseLoot" \notin DOMAIN locations[l]
               THEN newLocations[l] = locations[l]
               ELSE /\ DOMAIN newLocations[l] = DOMAIN locations[l]
                    /\ \A f \in DOMAIN locations[l] \ {"looseLoot"} :
                           newLocations[l][f] = locations[l][f]
                    /\ DOMAIN newLocations[l].looseLoot = DOMAIN locations[l].looseLoot
                    /\ \A f \in DOMAIN locations[l].looseLoot \ {"spawnpoints"} :
                           newLocations[l].looseLoot[f] = locations[l].looseLoot[f]
                    /\ Len(newLocations[l].looseLoot.spawnpoints)
                           = Len(locations[l].looseLoot.spawnpoints)
                    /\ \A s \in 1..Len(locations[l].looseLoot.spawnpoints) :
                           LET old == locations[l].looseLoot.spawnpoints[s]
                               new == newLocations[l].looseLoot.spawnpoints[s]
                           IN  /\ DOMAIN new = DOMAIN old
                               /\ \A f \in DOMAIN old \ {"itemDistribution"} :
                                      new[f] = old[f]
                               /\ Len(new.itemDistribution) = Len(old.itemDistribution)
                               /\ \A k \in 1..Len(old.itemDistribution) :
                                      /\ DOMAIN new.itemDistribution[k]
                                             = {"composedKey", "relativeProbability"}
                                      /\ new.itemDistribution[k].composedKey
                                             = old.itemDistribution[k].composedKey

\* a spawn point with an entry of a known instance, whose probability has
\* changed, and an entry of an unknown instance, and a container with two
\* entries, one of them changed
C6_Witness ==
    /\ pc = "done"
    /\ Len(loot.staticLoot["crate"].itemDistribution) = 2
    /\ newLootTables.staticLoot["crate"] # loot.staticLoot["crate"]
    /\ LET old == locations["bigmap"].looseLoot.spawnpoints[1].itemDistribution
           new == newLocations["bigmap"].looseLoot.spawnpoints[1].itemDistribution
       IN  /\ Len(old) = 2
           /\ old[1].composedKey.key = "i9"
           /\ old[2].composedKey.key = "i1"
           /\ new[2].relativeProbability # old[2].relativeProbability

====
